---- MODULE Spec2Model ----
(***************************************************************************)
(* Model of Dashboard.py: one run of the Streamlit script.  The script     *)
(* loads "Adidas data.xlsx" into the table df, stops when df is empty,     *)
(* computes four summary scalars and then, tab by tab, the group-by views  *)
(* that feed the charts and the CSV downloads.                             *)
(*                                                                         *)
(* Text cells are sequences of character codes, so the order pandas sorts  *)
(* group keys in (Python string comparison) is computed, not assumed.      *)
(* Numeric cells are integers (whole units and whole dollars).             *)
(***************************************************************************)
EXTENDS Integers, Sequences, FiniteSets, TLC

\* Largest number of data rows of the spreadsheet.
MaxRows == 3

(***************************************************************************)
(* The spreadsheet "Adidas data.xlsx" as read_excel sees it.               *)
(***************************************************************************)

\* Column headers of a complete sheet.
RequiredColumns ==
    {"Retailer", "Region", "State", "City", "Product", "InvoiceDate",
     "UnitsSold", "TotalSales", "OperatingProfit"}

\* Header rows a sheet on disk may have: complete, or lacking one column.
SheetColumns ==
    {RequiredColumns, RequiredColumns \ {"UnitsSold"}, RequiredColumns \ {"InvoiceDate"}}

\* An InvoiceDate cell holding a calendar date.
DateCell(y, m, d) == [kind |-> "date", y |-> y, m |-> m, d |-> d]

\* An InvoiceDate cell holding text that is not a date.
TextCell == [kind |-> "text", y |-> 0, m |-> 0, d |-> 0]

\* One data row of a complete sheet.
SheetRow(retailer, region, state, city, product, date, units, sales, profit) ==
    [Retailer |-> retailer, Region |-> region, State |-> state, City |-> city,
     Product |-> product, InvoiceDate |-> date, UnitsSold |-> units,
     TotalSales |-> sales, OperatingProfit |-> profit]

\* The data rows a sheet is drawn from.
\*   Amazon  East New York   NYC      Shoes
\*   Walmart East Ohio       Columbus Apparel
\*   Amazon  West California LA       Shoes
\*   Walmart West California LA       Apparel
SheetRows ==
    LET Amazon == <<65, 109, 97, 122, 111, 110>>
        Walmart == <<87, 97, 108, 109, 97, 114, 116>>
        East == <<69, 97, 115, 116>>
        West == <<87, 101, 115, 116>>
        NewYork == <<78, 101, 119, 32, 89, 111, 114, 107>>
        Ohio == <<79, 104, 105, 111>>
        California == <<67, 97, 108, 105, 102, 111, 114, 110, 105, 97>>
        NYC == <<78, 89, 67>>
        Columbus == <<67, 111, 108, 117, 109, 98, 117, 115>>
        LA == <<76, 65>>
        Shoes == <<83, 104, 111, 101, 115>>
        Apparel == <<65, 112, 112, 97, 114, 101, 108>>
    IN  { SheetRow(Amazon, East, NewYork, NYC, Shoes, DateCell(2023, 1, 5), 10, 100, 30),
          SheetRow(Amazon, East, NewYork, NYC, Shoes, DateCell(2023, 4, 10), 5, 50, 10),
          SheetRow(Amazon, East, NewYork, NYC, Shoes, TextCell, 10, 100, 30),
          SheetRow(Walmart, East, Ohio, Columbus, Apparel, DateCell(2023, 1, 5), 20, 200, 5),
          SheetRow(Walmart, East, Ohio, Columbus, Apparel, TextCell, 5, 50, 10),
          SheetRow(Walmart, East, Ohio, Columbus, Apparel, DateCell(2024, 1, 15), 10, 100, 10),
          SheetRow(Amazon, West, California, LA, Shoes, DateCell(2023, 12, 20), 10, 100, 40),
          SheetRow(Amazon, West, California, LA, Shoes, DateCell(2024, 1, 15), 20, 200, -20),
          SheetRow(Amazon, West, California, LA, Shoes, DateCell(2023, 1, 5), 5, 50, 10),
          SheetRow(Walmart, West, California, LA, Apparel, DateCell(2023, 4, 10), 5, 50, 5) }

\* All sequences over S of length at most n.
SeqUpTo(S, n) == UNION { [1..k -> S] : k \in 0..n }

\* A row restricted to the columns the sheet has.
Project(r, cols) == [c \in cols |-> r[c]]

\* The states of the file system the script can start in.
Files ==
    { [exists |-> FALSE, columns |-> {}, rows |-> <<>>] }
    \cup
    { [exists |-> TRUE, columns |-> cols,
       rows |-> [i \in DOMAIN rs |-> Project(rs[i], cols)]] :
         cols \in SheetColumns, rs \in SeqUpTo(SheetRows, MaxRows) }

(***************************************************************************)
(* pandas values and helpers                                               *)
(***************************************************************************)

\* pd.NaT: the datetime to_datetime(errors='coerce') gives an invalid cell.
NaT == [kind |-> "NaT", y |-> 0, m |-> 0, d |-> 0]

\* NaN in a text column: what .dt.strftime gives for NaT.
NaN == << >>

\* pd.DataFrame(): no columns, no rows.
EmptyDataFrame == [columns |-> {}, rows |-> <<>>]

\* pd.to_datetime(cell, errors='coerce').
to_datetime(cell) == IF cell.kind = "date" THEN cell ELSE NaT

\* %b: the abbreviated month name.
MonthAbbr ==
    << <<74, 97, 110>>, <<70, 101, 98>>, <<77, 97, 114>>, <<65, 112, 114>>,
       <<77, 97, 121>>, <<74, 117, 110>>, <<74, 117, 108>>, <<65, 117, 103>>,
       <<83, 101, 112>>, <<79, 99, 116>>, <<78, 111, 118>>, <<68, 101, 99>> >>

\* .dt.strftime("%b'%y"): month abbreviation, apostrophe, two-digit year.
strftime(date) ==
    IF date = NaT THEN NaN
    ELSE MonthAbbr[date.m] \o <<39>> \o <<48 + ((date.y % 100) \div 10), 48 + (date.y % 10)>>

\* df.empty: some axis has length 0.
IsEmpty(t) == t.columns = {} \/ Len(t.rows) = 0

\* Python's < on strings: lexicographic by character code.
RECURSIVE TextLess(_, _)
TextLess(a, b) ==
    IF b = << >> THEN FALSE
    ELSE IF a = << >> THEN TRUE
    ELSE IF Head(a) # Head(b) THEN Head(a) < Head(b)
    ELSE TextLess(Tail(a), Tail(b))

\* Python's < on tuples of strings (the order of a multi-column group key).
RECURSIVE KeyLess(_, _)
KeyLess(a, b) ==
    IF a = << >> \/ b = << >> THEN FALSE
    ELSE IF Head(a) # Head(b) THEN TextLess(Head(a), Head(b))
    ELSE KeyLess(Tail(a), Tail(b))

\* Series.sum() of column col over the rows.
RECURSIVE Sum(_, _)
Sum(rows, col) ==
    IF rows = << >> THEN 0 ELSE rows[1][col] + Sum(Tail(rows), col)

\* The group key of a row: its values in the columns of by.
KeyOf(r, by) == [i \in DOMAIN by |-> r[by[i]]]

\* A key with a missing value in some column.
HasNaN(key) == \E i \in DOMAIN key : key[i] = NaN

\* The group keys groupby keeps (dropna=True: keys with a missing value go).
GroupKeys(rows, by) ==
    { k \in { KeyOf(rows[i], by) : i \in DOMAIN rows } : ~HasNaN(k) }

\* The rows of the group with key k, in table order.
RECURSIVE GroupRows(_, _, _)
GroupRows(rows, by, k) ==
    IF rows = << >> THEN << >>
    ELSE IF KeyOf(Head(rows), by) = k THEN <<Head(rows)>> \o GroupRows(Tail(rows), by, k)
    ELSE GroupRows(Tail(rows), by, k)

\* The keys in ascending order (groupby sort=True).
RECURSIVE SortedKeys(_)
SortedKeys(keys) ==
    IF keys = {} THEN << >>
    ELSE LET least == CHOOSE k \in keys : \A o \in keys \ {k} : KeyLess(k, o)
         IN  <<least>> \o SortedKeys(keys \ {least})

\* Range of a sequence.
Range(s) == { s[i] : i \in DOMAIN s }

\* df.groupby(by)[measures].sum().reset_index()
groupby_sum(t, by, measures) ==
    LET keys == SortedKeys(GroupKeys(t.rows, by))
        Index(c) == CHOOSE i \in DOMAIN by : by[i] = c
    IN  [columns |-> Range(by) \cup Range(measures),
         rows |-> [g \in DOMAIN keys |->
                     [c \in Range(by) \cup Range(measures) |->
                        IF c \in Range(by) THEN keys[g][Index(c)]
                        ELSE Sum(GroupRows(t.rows, by, keys[g]), c)]]]

\* Insert a row into rows sorted on col, after the rows that do not come later.
RECURSIVE Insert(_, _, _, _)
Insert(rows, r, col, ascending) ==
    IF rows = << >> THEN <<r>>
    ELSE IF (IF ascending THEN r[col] < Head(rows)[col] ELSE r[col] > Head(rows)[col])
         THEN <<r>> \o rows
         ELSE <<Head(rows)>> \o Insert(Tail(rows), r, col, ascending)

\* The rows in order of col, ties in table order.
RECURSIVE SortRows(_, _, _)
SortRows(rows, col, ascending) ==
    IF rows = << >> THEN << >>
    ELSE Insert(SortRows(SubSeq(rows, 1, Len(rows) - 1), col, ascending),
                rows[Len(rows)], col, ascending)

\* DataFrame.sort_values(col, ascending=...): a new table, the old one kept.
sort_values(t, col, ascending) ==
    [columns |-> t.columns, rows |-> SortRows(t.rows, col, ascending)]

\* DataFrame.to_csv(index=False): the header line, then one line per row.
to_csv(t, header) ==
    <<header>> \o [i \in DOMAIN t.rows |-> [j \in DOMAIN header |-> t.rows[i][header[j]]]]

(***************************************************************************)
(* The script                                                              *)
(***************************************************************************)

\* load_data() as it would be if rows with an invalid date were dropped.
load_data_dropna(f) ==
    IF ~f.exists
    THEN [st_error |-> TRUE, raised |-> "none", df |-> EmptyDataFrame]
    ELSE IF "InvoiceDate" \notin f.columns
    THEN [st_error |-> FALSE, raised |-> "KeyError", df |-> EmptyDataFrame]
    ELSE LET kept == SelectSeq(f.rows, LAMBDA r : r.InvoiceDate.kind = "date")
         IN  [st_error |-> FALSE, raised |-> "none",
              df |-> [columns |-> f.columns \cup {"Month_Year"},
                      rows |-> [i \in DOMAIN kept |->
                         [c \in f.columns \cup {"Month_Year"} |->
                            IF c = "Month_Year" THEN strftime(kept[i].InvoiceDate)
                            ELSE kept[i][c]]]]]

\* load_data(): what it shows, what it raises and what it returns.
load_data(f) ==
    IF ~f.exists
    THEN [st_error |-> TRUE, raised |-> "none", df |-> EmptyDataFrame]
    ELSE IF "InvoiceDate" \notin f.columns
    THEN [st_error |-> FALSE, raised |-> "KeyError", df |-> EmptyDataFrame]
    ELSE [st_error |-> FALSE, raised |-> "none",
          df |-> [columns |-> f.columns \cup {"Month_Year"},
                  rows |-> [i \in DOMAIN f.rows |->
                     [c \in f.columns \cup {"Month_Year"} |->
                        IF c = "InvoiceDate" THEN to_datetime(f.rows[i].InvoiceDate)
                        ELSE IF c = "Month_Year"
                             THEN strftime(to_datetime(f.rows[i].InvoiceDate))
                        ELSE f.rows[i][c]]]]]

\* The views, as functions of the table.
retailer_sales_of(t) == groupby_sum(t, <<"Retailer">>, <<"TotalSales">>)
time_series_of(t) == groupby_sum(t, <<"Month_Year">>, <<"TotalSales">>)
state_data_of(t) == groupby_sum(t, <<"State">>, <<"TotalSales", "UnitsSold">>)
geo_data_of(t) == groupby_sum(t, <<"Region", "City">>, <<"TotalSales">>)
region_sales_of(t) == groupby_sum(t, <<"Region">>, <<"TotalSales">>)
product_sales_of(t) ==
    groupby_sum(t, <<"Product">>, <<"TotalSales", "UnitsSold", "OperatingProfit">>)
product_export_of(t) == groupby_sum(t, <<"Product">>, <<"TotalSales", "UnitsSold">>)
sunburst_data_of(t) ==
    groupby_sum(t, <<"Region", "State", "Retailer">>, <<"OperatingProfit">>)
funnel_data_unsorted(t) == groupby_sum(t, <<"Region">>, <<"OperatingProfit">>)
funnel_data_of(t) ==
    sort_values(groupby_sum(t, <<"Region">>, <<"OperatingProfit">>), "OperatingProfit", TRUE)
line_data_of(t) == groupby_sum(t, <<"Month_Year", "Region">>, <<"OperatingProfit">>)

\* The waterfall table with the costs entered unnegated.
waterfall_data_positive_costs(sales, profit) ==
    LET costs == sales - profit
    IN  [columns |-> {"Category", "Amount"},
         rows |-> << [Category |-> "Revenue", Amount |-> sales],
                     [Category |-> "Costs", Amount |-> costs],
                     [Category |-> "Profit", Amount |-> profit] >>]

\* The waterfall table built from the two scalars.
waterfall_data_of(sales, profit) ==
    LET costs == sales - profit
    IN  [columns |-> {"Category", "Amount"},
         rows |-> << [Category |-> "Revenue", Amount |-> sales],
                     [Category |-> "Costs", Amount |-> -costs],
                     [Category |-> "Profit", Amount |-> profit] >>]

\* Column order of the full table in the export.
FullHeader ==
    <<"Retailer", "Region", "State", "City", "Product", "InvoiceDate",
      "UnitsSold", "TotalSales", "OperatingProfit", "Month_Year">>

\* File names of the download buttons.
DownloadNames ==
    {"retailer_sales.csv", "product_performance.csv", "adidas_full_data.csv",
     "profit_waterfall.csv", "profit_hierarchy.csv", "profit_funnel.csv",
     "monthly_profit_trends.csv"}

\* Names of the summary scalars and of the view tables of the script.
ScalarNames == {"total_units", "total_sales", "total_profit", "sales_count"}
ViewNames ==
    {"retailer_sales", "time_series", "state_data", "geo_data", "region_sales",
     "product_sales", "sunburst_data", "funnel_data", "line_data"}

VARIABLES
    file,             \* the spreadsheet on disk
    pc,               \* position of the script
    df,               \* the loaded table
    st_error,         \* st.error was called by the loader
    exception,        \* the exception that ended the run, or "none"
    bound,            \* names the script has assigned so far
    total_units, total_sales, total_profit, sales_count,
    retailer_sales, retailer_expander, time_series, state_data,
    geo_data, region_sales, product_sales,
    downloads,        \* data of each download button, << >> before it exists
    waterfall_data, sunburst_data, funnel_data, line_data

scalars == <<total_units, total_sales, total_profit, sales_count>>
tab1 == <<retailer_sales, retailer_expander, time_series, state_data>>
tab2 == <<geo_data, region_sales>>
tab5 == <<waterfall_data, sunburst_data, funnel_data, line_data>>
vars == <<file, pc, df, st_error, exception, bound, scalars, tab1, tab2,
          product_sales, downloads, tab5>>

Init ==
    /\ file \in Files
    /\ pc = "load"
    /\ df = EmptyDataFrame
    /\ st_error = FALSE
    /\ exception = "none"
    /\ bound = {}
    /\ total_units = 0 /\ total_sales = 0 /\ total_profit = 0 /\ sales_count = 0
    /\ retailer_sales = EmptyDataFrame /\ retailer_expander = EmptyDataFrame
    /\ time_series = EmptyDataFrame /\ state_data = EmptyDataFrame
    /\ geo_data = EmptyDataFrame /\ region_sales = EmptyDataFrame
    /\ product_sales = EmptyDataFrame
    /\ downloads = [n \in DownloadNames |-> << >>]
    /\ waterfall_data = EmptyDataFrame /\ sunburst_data = EmptyDataFrame
    /\ funnel_data = EmptyDataFrame /\ line_data = EmptyDataFrame

\* df = load_data()
Load ==
    /\ pc = "load"
    /\ LET res == load_data(file)
       IN  /\ st_error' = res.st_error
           /\ IF res.raised # "none"
              THEN /\ exception' = res.raised
                   /\ pc' = "crashed"
                   /\ UNCHANGED <<df, bound>>
              ELSE /\ df' = res.df
                   /\ bound' = bound \cup {"df"}
                   /\ pc' = "check"
                   /\ UNCHANGED exception
    /\ UNCHANGED <<file, scalars, tab1, tab2, product_sales, downloads, tab5>>

\* The script without the stop on an empty table.
StopIfEmpty_never ==
    /\ pc = "check"
    /\ pc' = "metrics"
    /\ UNCHANGED <<file, df, st_error, exception, bound, scalars, tab1, tab2,
                   product_sales, downloads, tab5>>

\* if df.empty: st.stop()
StopIfEmpty ==
    /\ pc = "check"
    /\ pc' = IF IsEmpty(df) THEN "stopped" ELSE "metrics"
    /\ UNCHANGED <<file, df, st_error, exception, bound, scalars, tab1, tab2,
                   product_sales, downloads, tab5>>

\* The four summary scalars; a column the table lacks raises KeyError.
SummaryMetrics ==
    /\ pc = "metrics"
    /\ IF "UnitsSold" \notin df.columns
       THEN /\ exception' = "KeyError"
            /\ pc' = "crashed"
            /\ UNCHANGED <<bound, scalars>>
       ELSE /\ total_units' = Sum(df.rows, "UnitsSold")
            /\ total_sales' = Sum(df.rows, "TotalSales")
            /\ total_profit' = Sum(df.rows, "OperatingProfit")
            /\ sales_count' = Len(df.rows)
            /\ bound' = bound \cup ScalarNames
            /\ pc' = "tab1"
            /\ UNCHANGED exception
    /\ UNCHANGED <<file, df, st_error, tab1, tab2, product_sales, downloads, tab5>>

\* Tab "Sales Overview" with the retailer display sorting the table in place.
Tab1_inplace ==
    /\ pc = "tab1"
    /\ retailer_sales' = retailer_sales_of(df)
    /\ retailer_expander' = sort_values(retailer_sales', "TotalSales", FALSE)
    /\ df' = sort_values(df, "TotalSales", FALSE)
    /\ time_series' = time_series_of(df)
    /\ state_data' = state_data_of(df)
    /\ bound' = bound \cup {"retailer_sales", "time_series", "state_data"}
    /\ pc' = "tab2"
    /\ UNCHANGED <<file, st_error, exception, scalars, tab2, product_sales,
                   downloads, tab5>>

\* Tab "Sales Overview".
Tab1 ==
    /\ pc = "tab1"
    /\ retailer_sales' = retailer_sales_of(df)
    /\ retailer_expander' = sort_values(retailer_sales', "TotalSales", FALSE)
    /\ time_series' = time_series_of(df)
    /\ state_data' = state_data_of(df)
    /\ bound' = bound \cup {"retailer_sales", "time_series", "state_data"}
    /\ pc' = "tab2"
    /\ UNCHANGED <<file, df, st_error, exception, scalars, tab2, product_sales,
                   downloads, tab5>>

\* Tab "Geography".
Tab2 ==
    /\ pc = "tab2"
    /\ geo_data' = geo_data_of(df)
    /\ region_sales' = region_sales_of(df)
    /\ bound' = bound \cup {"geo_data", "region_sales"}
    /\ pc' = "tab3"
    /\ UNCHANGED <<file, df, st_error, exception, scalars, tab1, product_sales,
                   downloads, tab5>>

\* Tab "Products".
Tab3 ==
    /\ pc = "tab3"
    /\ product_sales' = product_sales_of(df)
    /\ bound' = bound \cup {"product_sales"}
    /\ pc' = "tab4"
    /\ UNCHANGED <<file, df, st_error, exception, scalars, tab1, tab2, downloads, tab5>>

\* Tab "Data": the three export buttons.
Tab4 ==
    /\ pc = "tab4"
    /\ downloads' =
         [downloads EXCEPT
            !["retailer_sales.csv"] =
                to_csv(retailer_sales_of(df), <<"Retailer", "TotalSales">>),
            !["product_performance.csv"] =
                to_csv(product_export_of(df), <<"Product", "TotalSales", "UnitsSold">>),
            !["adidas_full_data.csv"] = to_csv(df, FullHeader)]
    /\ pc' = "tab5"
    /\ UNCHANGED <<file, df, st_error, exception, bound, scalars, tab1, tab2,
                   product_sales, tab5>>

\* Tab "Advanced": waterfall, sunburst, funnel, faceted line and their downloads.
Tab5 ==
    /\ pc = "tab5"
    /\ waterfall_data' = waterfall_data_of(total_sales, total_profit)
    /\ sunburst_data' = sunburst_data_of(df)
    /\ funnel_data' = funnel_data_of(df)
    /\ line_data' = line_data_of(df)
    /\ downloads' =
         [downloads EXCEPT
            !["profit_waterfall.csv"] = to_csv(waterfall_data', <<"Category", "Amount">>),
            !["profit_hierarchy.csv"] =
                to_csv(sunburst_data', <<"Region", "State", "Retailer", "OperatingProfit">>),
            !["profit_funnel.csv"] = to_csv(funnel_data', <<"Region", "OperatingProfit">>),
            !["monthly_profit_trends.csv"] =
                to_csv(line_data', <<"Month_Year", "Region", "OperatingProfit">>)]
    /\ bound' = bound \cup {"waterfall_data", "sunburst_data", "funnel_data", "line_data"}
    /\ pc' = "done"
    /\ UNCHANGED <<file, df, st_error, exception, scalars, tab1, tab2, product_sales>>

Next == Load \/ StopIfEmpty \/ SummaryMetrics \/ Tab1 \/ Tab2 \/ Tab3 \/ Tab4 \/ Tab5

Spec == Init /\ [][Next]_vars

(***************************************************************************)
(* Properties                                                              *)
(***************************************************************************)

\* The run has ended: stopped by st.stop(), by an exception, or at the footer.
Ended == pc \in {"stopped", "crashed", "done"}

\* No download button holds data.
NoDownloads == \A n \in DownloadNames : downloads[n] = << >>

\* C1: when the source file does not exist, the loader reports the error with
\* st.error and the script halts at st.stop(): no summary scalar and no view is
\* ever assigned, nothing is offered for download and no exception is raised.
C1_NotFoundHalts ==
    (~file.exists /\ pc # "load") =>
        /\ st_error
        /\ exception = "none"
        /\ pc \in {"check", "stopped"}
        /\ bound \cap (ScalarNames \cup ViewNames \cup {"waterfall_data"}) = {}
        /\ NoDownloads

\* C1 witness: the file is missing and the script has stopped.
C1_Witness == ~file.exists /\ pc = "stopped" /\ st_error

\* C2: a sheet without the UnitsSold column ends in an error reported by the
\* loader, and no exception escapes the loader or a later step.
C2_SchemaErrorReported ==
    (file.exists /\ "UnitsSold" \notin file.columns /\ Ended) =>
        (st_error /\ exception = "none")

\* The sum of a measure over a view equals its sum over the table.
Conserved(view, measure) == Sum(view.rows, measure) = Sum(df.rows, measure)

\* C3: every view's sum of its measure over all groups equals the sum of that
\* measure over all rows of the table, rows with an unparseable date included.
C3_TotalsConserved ==
    pc = "done" =>
        /\ Conserved(retailer_sales, "TotalSales")
        /\ Conserved(time_series, "TotalSales")
        /\ Conserved(state_data, "TotalSales") /\ Conserved(state_data, "UnitsSold")
        /\ Conserved(geo_data, "TotalSales")
        /\ Conserved(region_sales, "TotalSales")
        /\ Conserved(product_sales, "TotalSales") /\ Conserved(product_sales, "UnitsSold")
        /\ Conserved(product_sales, "OperatingProfit")
        /\ Conserved(sunburst_data, "OperatingProfit")
        /\ Conserved(funnel_data, "OperatingProfit")
        /\ Conserved(line_data, "OperatingProfit")

\* The distinct key combinations of the table, a missing label counted as a value.
DistinctKeys(by) == { KeyOf(df.rows[i], by) : i \in DOMAIN df.rows }

\* C4: every view has as many rows as the table has distinct group-key
\* combinations, the sentinel period label counting as a key value.
C4_OneRowPerKey ==
    pc = "done" =>
        /\ Len(retailer_sales.rows) = Cardinality(DistinctKeys(<<"Retailer">>))
        /\ Len(time_series.rows) = Cardinality(DistinctKeys(<<"Month_Year">>))
        /\ Len(state_data.rows) = Cardinality(DistinctKeys(<<"State">>))
        /\ Len(geo_data.rows) = Cardinality(DistinctKeys(<<"Region", "City">>))
        /\ Len(region_sales.rows) = Cardinality(DistinctKeys(<<"Region">>))
        /\ Len(product_sales.rows) = Cardinality(DistinctKeys(<<"Product">>))
        /\ Len(sunburst_data.rows) = Cardinality(DistinctKeys(<<"Region", "State", "Retailer">>))
        /\ Len(funnel_data.rows) = Cardinality(DistinctKeys(<<"Region">>))
        /\ Len(line_data.rows) = Cardinality(DistinctKeys(<<"Month_Year", "Region">>))

\* The calendar position (year * 12 + month) of the rows carrying a period label.
CalendarKey(label) ==
    LET i == CHOOSE j \in DOMAIN df.rows : df.rows[j].Month_Year = label
    IN  df.rows[i].InvoiceDate.y * 12 + df.rows[i].InvoiceDate.m

\* C5: the sales-by-time view lists its period labels in calendar order: of any
\* two groups the one with the earlier month/year comes first.
C5_CalendarOrder ==
    "time_series" \in bound =>
        \A i, j \in DOMAIN time_series.rows :
            i < j => CalendarKey(time_series.rows[i].Month_Year)
                       < CalendarKey(time_series.rows[j].Month_Year)

\* Rows of the sheet whose invoice date is not a date.
BadDateRows == { i \in DOMAIN file.rows : file.rows[i].InvoiceDate.kind # "date" }

\* C6: a row with an unparseable invoice date does not fail the load and is
\* kept: it gets the sentinel date and the sentinel period label, keeps its
\* other cells, and counts in total units, total sales and the transactions.
C6_BadDateRowKept ==
    (file.exists /\ "InvoiceDate" \in file.columns /\ pc # "load") =>
        /\ "df" \in bound /\ ~st_error
        /\ Len(df.rows) = Len(file.rows)
        /\ \A i \in BadDateRows :
              /\ df.rows[i].InvoiceDate = NaT
              /\ df.rows[i].Month_Year = NaN
              /\ \A c \in file.columns \ {"InvoiceDate"} : df.rows[i][c] = file.rows[i][c]
        /\ ScalarNames \subseteq bound =>
              /\ total_units = Sum(file.rows, "UnitsSold")
              /\ total_sales = Sum(file.rows, "TotalSales")
              /\ sales_count = Len(file.rows)

\* C6 witness: the scalars are computed over a sheet with a bad date among
\* good ones.
C6_Witness ==
    /\ ScalarNames \subseteq bound
    /\ file.exists /\ "InvoiceDate" \in file.columns
    /\ BadDateRows # {}
    /\ BadDateRows # DOMAIN file.rows
    /\ total_units > 0

\* C7: a sheet with the required columns and zero rows loads, and the script
\* goes on to compute every view, each an empty table; it does not halt.
C7_EmptySheetRuns ==
    (file.exists /\ file.columns = RequiredColumns /\ file.rows = << >> /\ Ended) =>
        /\ pc = "done"
        /\ ViewNames \subseteq bound
        /\ \A v \in {retailer_sales, time_series, state_data, geo_data, region_sales,
                     product_sales, sunburst_data, funnel_data, line_data} :
              v.rows = << >>

\* The operating profit of the table's rows of one region.
RECURSIVE RegionProfit(_, _)
RegionProfit(n, region) ==
    IF n = 0 THEN 0
    ELSE RegionProfit(n - 1, region)
         + (IF df.rows[n].Region = region THEN df.rows[n].OperatingProfit ELSE 0)

\* C8: the funnel view has one row per region of the table holding that
\* region's summed operating profit, and adjacent rows ascend in that profit.
C8_FunnelAscending ==
    "funnel_data" \in bound =>
        /\ { funnel_data.rows[i].Region : i \in DOMAIN funnel_data.rows }
             = { df.rows[i].Region : i \in DOMAIN df.rows }
        /\ \A i, j \in DOMAIN funnel_data.rows :
              funnel_data.rows[i].Region = funnel_data.rows[j].Region => i = j
        /\ \A i \in DOMAIN funnel_data.rows :
              funnel_data.rows[i].OperatingProfit
                = RegionProfit(Len(df.rows), funnel_data.rows[i].Region)
        /\ \A i \in 1..(Len(funnel_data.rows) - 1) :
              funnel_data.rows[i].OperatingProfit <= funnel_data.rows[i + 1].OperatingProfit

\* C8 witness: a funnel whose ascending order differs from the order of the
\* region names.
C8_Witness ==
    /\ "funnel_data" \in bound
    /\ Len(funnel_data.rows) = 2
    /\ TextLess(funnel_data.rows[2].Region, funnel_data.rows[1].Region)
    /\ funnel_data.rows[1].OperatingProfit < funnel_data.rows[2].OperatingProfit

\* C9: once loaded the table never changes, whatever the script computes,
\* displays or exports, and the retailer export equals the retailer view
\* computed for the chart.
C9_TableImmutable ==
    /\ [][("df" \in bound) => (df' = df)]_vars
    /\ [](downloads["retailer_sales.csv"] # << >> =>
            downloads["retailer_sales.csv"]
              = to_csv(retailer_sales, <<"Retailer", "TotalSales">>))

\* C9 witness: the run is complete, the sorted retailer display differs from
\* the view, and the table still has the sheet's measures row by row.
C9_Witness ==
    /\ pc = "done"
    /\ retailer_expander.rows # retailer_sales.rows
    /\ Len(downloads["retailer_sales.csv"]) = 3
    /\ \A i \in DOMAIN df.rows : df.rows[i].TotalSales = file.rows[i].TotalSales

\* The waterfall amount of a category.
Amount(category) ==
    LET i == CHOOSE j \in DOMAIN waterfall_data.rows :
                 waterfall_data.rows[j].Category = category
    IN  waterfall_data.rows[i].Amount

\* C10: in the waterfall table Revenue is the table's total sales, Profit its
\* total operating profit, Costs the negated difference of the two, and
\* Revenue plus Costs equals Profit.
C10_WaterfallConsistent ==
    "waterfall_data" \in bound =>
        /\ Len(waterfall_data.rows) = 3
        /\ Amount("Revenue") = Sum(df.rows, "TotalSales")
        /\ Amount("Profit") = Sum(df.rows, "OperatingProfit")
        /\ Amount("Costs") = -(total_sales - total_profit)
        /\ Amount("Revenue") + Amount("Costs") = Amount("Profit")

\* C10 witness: a waterfall over a table whose costs are not zero.
C10_Witness ==
    /\ "waterfall_data" \in bound
    /\ Amount("Costs") < 0
    /\ Amount("Profit") # 0

====
